---- MODULE Spec2Model ----
(***************************************************************************)
(* The REI chat gateway of main.py as a state machine.                     *)
(*                                                                         *)
(* Text is a sequence of one-character strings wherever the program        *)
(* computes with it (env-var names, unit identifiers, credentials, the     *)
(* caller's text, upstream bodies).  A literal the program writes itself   *)
(* (a message, a prefix) is one element holding the whole literal.         *)
(* A JSON value / Python object is a record tagged by t:                   *)
(*   null, num (v its digits), str (v text), arr (v a sequence of values), *)
(*   obj (v a sequence of [k, v] pairs, keys unique, insertion-ordered).   *)
(***************************************************************************)
EXTENDS Integers, Sequences, FiniteSets, TLC

VARIABLES rei_agents, req, delivered

vars == <<rei_agents, req, delivered>>

\* Number of chat requests the server handles concurrently.
NumRequests == 2

Requests == 1..NumRequests

----------------------------------------------------------------------------
\* Text helpers.

\* s[:n]
Take(s, n) == SubSeq(s, 1, IF n < Len(s) THEN n ELSE Len(s))

\* s[-n:]
TakeLast(s, n) == SubSeq(s, IF Len(s) > n THEN Len(s) - n + 1 ELSE 1, Len(s))

\* needle in hay (contiguous occurrence; the empty text occurs everywhere)
Contains(hay, needle) ==
    \E i \in 1..(Len(hay) + 1) :
        /\ i + Len(needle) - 1 <= Len(hay)
        /\ SubSeq(hay, i, i + Len(needle) - 1) = needle

\* the part of s that follows the first occurrence of element tok
AfterToken(s, tok) ==
    IF \E i \in 1..Len(s) : s[i] = tok
    THEN LET i == CHOOSE j \in 1..Len(s) :
                      s[j] = tok /\ \A h \in 1..(j - 1) : s[h] # tok
         IN SubSeq(s, i + 1, Len(s))
    ELSE <<>>

LowerChar(c) ==
    CASE c = "A" -> "a"
      [] c = "B" -> "b"
      [] c = "C" -> "c"
      [] OTHER -> c

\* str.lower()
Lower(s) == [i \in 1..Len(s) |-> LowerChar(s[i])]

\* The literal "REI_AGENT_SECRET_", one element.
ENV_PREFIX == "REI_AGENT_SECRET_"

\* key.startswith("REI_AGENT_SECRET_")
StartsWithPrefix(key) == Len(key) > 0 /\ key[1] = ENV_PREFIX

\* key.replace("REI_AGENT_SECRET_", ""): every occurrence is removed
RemovePrefix(key) == SelectSeq(key, LAMBDA c : c # ENV_PREFIX)

----------------------------------------------------------------------------
\* Python dict as an insertion-ordered sequence of [k, v] pairs.

DictHas(d, k) == \E i \in 1..Len(d) : d[i].k = k

DictGet(d, k) == d[CHOOSE i \in 1..Len(d) : d[i].k = k].v

\* d[k] = v: an existing key keeps its position
DictSet(d, k, v) ==
    IF DictHas(d, k)
    THEN [i \in 1..Len(d) |-> IF d[i].k = k THEN [k |-> k, v |-> v] ELSE d[i]]
    ELSE Append(d, [k |-> k, v |-> v])

\* list(d.keys())
DictKeys(d) == [i \in 1..Len(d) |-> d[i].k]

----------------------------------------------------------------------------
\* Startup: the registry is built once from the process environment.

\* As LoadAgents, with the unit name kept in the case the environment gives.
RECURSIVE LoadAgents_KeepCase(_, _)
LoadAgents_KeepCase(environ, acc) ==
    IF environ = <<>> THEN acc
    ELSE LET key   == Head(environ).k
             value == Head(environ).v
         IN IF StartsWithPrefix(key) /\ value # <<>>
            THEN LoadAgents_KeepCase(Tail(environ),
                                     DictSet(acc, RemovePrefix(key), value))
            ELSE LoadAgents_KeepCase(Tail(environ), acc)

\* for key, value in os.environ.items(): ... over an environment given as a
\* sequence of [k, v] pairs with distinct names.
RECURSIVE LoadAgents(_, _)
LoadAgents(environ, acc) ==
    IF environ = <<>> THEN acc
    ELSE LET key   == Head(environ).k
             value == Head(environ).v
         IN IF StartsWithPrefix(key) /\ value # <<>>
            THEN LoadAgents(Tail(environ),
                            DictSet(acc, Lower(RemovePrefix(key)), value))
            ELSE LoadAgents(Tail(environ), acc)

\* Credentials used by the environments below.
SecretA == <<"s","k","-","a","l","p","h","a","-","0","1","2","3","4","5","6","7","8">>
SecretB == <<"t","o","k">>
SecretC == <<"s","k","-","o","t","h","e","r","-","9","9">>

EnvKey(name) == <<ENV_PREFIX>> \o name

\* The process environments considered: none configured; one unit with an
\* upper-case name; two units beside an unrelated variable and an empty
\* secret; two names that differ only in case.
Environments ==
    { <<>>,
      << [k |-> EnvKey(<<"A">>), v |-> SecretA] >>,
      << [k |-> <<"P","A","T","H">>, v |-> <<"/","b">>],
         [k |-> EnvKey(<<"a">>), v |-> SecretA],
         [k |-> EnvKey(<<"C">>), v |-> <<>>],
         [k |-> EnvKey(<<"B">>), v |-> SecretB] >>,
      << [k |-> EnvKey(<<"A">>), v |-> SecretA],
         [k |-> EnvKey(<<"a">>), v |-> SecretC] >> }

\* Unit identifiers callers put in the path.
UnitIds == { <<"a">>, <<"A">>, <<"b">> }

\* Texts callers send (Query.text), the empty one included.
Texts == { <<>>, <<"h","i"," ","\"","\\","n">> }

----------------------------------------------------------------------------
\* Python objects (parsed JSON) and the operations the handler applies to them.

JNull == [t |-> "null"]
JNum(digits) == [t |-> "num", v |-> digits]
JStr(s) == [t |-> "str", v |-> s]
JArr(a) == [t |-> "arr", v |-> a]
JObj(d) == [t |-> "obj", v |-> d]

\* {key: value}
Obj1(key, value) == JObj(<< [k |-> key, v |-> value] >>)

\* An evaluation either yields a value or raises.
Ok(v) == [ok |-> TRUE, v |-> v]
Raise(type, msg) == [ok |-> FALSE, exc |-> [type |-> type, msg |-> msg]]

PyTypeName(x) ==
    CASE x.t = "null" -> "NoneType"
      [] x.t = "num" -> "int"
      [] x.t = "str" -> "str"
      [] x.t = "arr" -> "list"
      [] x.t = "obj" -> "dict"

\* 'choices' in x
PyContainsChoices(x) ==
    CASE x.t = "obj" -> Ok(DictHas(x.v, "choices"))
      [] x.t = "arr" ->
            Ok(\E i \in 1..Len(x.v) :
                   x.v[i].t = "str" /\ x.v[i].v = <<"c","h","o","i","c","e","s">>)
      [] x.t = "str" -> Ok(Contains(x.v, <<"c","h","o","i","c","e","s">>))
      [] OTHER ->
            Raise("TypeError",
                  <<"argument of type '", PyTypeName(x), "' is not iterable">>)

\* x['choices'], evaluated only after 'choices' in x was true
PyItemChoices(x) ==
    CASE x.t = "obj" -> Ok(DictGet(x.v, "choices"))
      [] x.t = "arr" ->
            Raise("TypeError", <<"list indices must be integers or slices, not str">>)
      [] OTHER -> Raise("TypeError", <<"string indices must be integers">>)

\* len(x)
PyLen(x) ==
    CASE x.t \in {"str", "arr", "obj"} -> Ok(Len(x.v))
      [] OTHER ->
            Raise("TypeError",
                  <<"object of type '", PyTypeName(x), "' has no len()">>)

\* x[0], evaluated only after len(x) > 0
PyItem0(x) ==
    CASE x.t = "arr" -> Ok(x.v[1])
      [] x.t = "str" -> Ok(JStr(<<x.v[1]>>))
      [] OTHER -> Raise("KeyError", <<"0">>)

\* x.get(key, default)
PyGet(x, key, default) ==
    IF x.t = "obj"
    THEN Ok(IF DictHas(x.v, key) THEN DictGet(x.v, key) ELSE default)
    ELSE Raise("AttributeError",
               <<"'", PyTypeName(x), "' object has no attribute 'get'">>)

----------------------------------------------------------------------------
\* POST /chat/{unit_id}: the handler up to its only suspension point.

HTTPException(status_code, detail) ==
    [ok |-> FALSE,
     exc |-> [type |-> "HTTPException", status_code |-> status_code,
              detail |-> detail]]

\* repr of a list of str: ['a', 'b']
RECURSIVE PyListItems(_)
PyListItems(l) ==
    IF l = <<>> THEN <<>>
    ELSE <<"'">> \o Head(l) \o <<"'">>
         \o (IF Tail(l) = <<>> THEN <<>> ELSE <<", ">> \o PyListItems(Tail(l)))

PyListRepr(l) == <<"[">> \o PyListItems(l) \o <<"]">>

\* As UnitNotFound, listing the registry's values in place of its keys.
UnitNotFound_ListsValues(agents, unit_id) ==
    HTTPException(404,
        <<"REI unit '">> \o unit_id \o <<"' not found. Available units: ">>
        \o PyListRepr([i \in 1..Len(agents) |-> agents[i].v]))

\* unit_id not in rei_agents  ->  HTTPException(404, ...)
UnitNotFound(agents, unit_id) ==
    HTTPException(404,
        <<"REI unit '">> \o unit_id \o <<"' not found. Available units: ">>
        \o PyListRepr(DictKeys(agents)))

\* unit_id in rei_agents: exact match against the registry's keys
UnitKnown(agents, unit_id) == DictHas(agents, unit_id)

MaskPrefixLen == 10
MaskSuffixLen == 4

\* The Authorization value written to the log: partial secret.
MaskedAuthorization(secret) ==
    <<"Bearer ">> \o Take(secret, MaskPrefixLen) \o <<".", ".", ".">>
    \o TakeLast(secret, MaskSuffixLen)

\* As RequestAuthorization, sending the value built for the log.
RequestAuthorization_Masked(agents, unit_id) ==
    MaskedAuthorization(DictGet(agents, unit_id))

\* The Authorization value of the request that is sent: full secret.
RequestAuthorization(agents, unit_id) ==
    <<"Bearer ">> \o DictGet(agents, unit_id)

\* payload = {"messages": [{"role": "user", "content": content_text}]}
Payload(content_text) ==
    [messages |-> << [role |-> "user", content |-> content_text] >>]

API_URL == "https://api.reisearch.box/rei/agents/chat-completion"

\* client.post(url, json=payload, headers={...})
PostCall(agents, unit_id, content_text) ==
    [method |-> "POST", url |-> API_URL,
     authorization |-> RequestAuthorization(agents, unit_id),
     content_type |-> "application/json",
     json |-> Payload(content_text)]

\* The outbound calls the handler makes before it suspends: one attempt.
OutboundCalls(agents, unit_id, content_text) ==
    << PostCall(agents, unit_id, content_text) >>

IdleFrame ==
    [pc |-> "idle", unit_id |-> <<>>, content_text |-> <<>>,
     headers |-> <<>>, calls |-> <<>>]

\* The coroutine's locals while it awaits client.post.
AwaitingFrame(agents, unit_id, text) ==
    [pc |-> "awaiting", unit_id |-> unit_id, content_text |-> text,
     headers |-> MaskedAuthorization(DictGet(agents, unit_id)),
     calls |-> OutboundCalls(agents, unit_id, text)]

----------------------------------------------------------------------------
\* What the upstream API (the environment) can answer to a call.

\* response.json() of a body that is no JSON document
NotJson == Raise("JSONDecodeError", <<"Expecting value: line 1 column 1 (char 0)">>)

\* A body given as raw text that is no JSON document.
RawBody(text) == [text |-> text, json |-> NotJson]

\* A body that is a JSON document: its raw text (one element) and its parse.
JsonBody(doc) == [text |-> <<doc.text>>, json |-> Ok(doc.value)]

Hello == <<"h","e","l","l","o">>

MessageBody(message) == Obj1("choices", JArr(<< Obj1("message", message) >>))

JsonDocuments ==
    << [text |-> "{\"choices\": [{\"message\": {\"content\": \"hello\"}}]}",
        value |-> MessageBody(Obj1("content", JStr(Hello)))],
       [text |-> "{\"choices\": [{\"message\": {\"content\": \"\"}}]}",
        value |-> MessageBody(Obj1("content", JStr(<<>>)))],
       [text |-> "{\"choices\": [{\"message\": {\"content\": null}}]}",
        value |-> MessageBody(Obj1("content", JNull))],
       [text |-> "{\"choices\": [{\"message\": {}}]}",
        value |-> MessageBody(JObj(<<>>))],
       [text |-> "{\"choices\": [{\"message\": null}]}",
        value |-> MessageBody(JNull)],
       [text |-> "{\"choices\": [{\"message\": \"hello\"}]}",
        value |-> MessageBody(JStr(Hello))],
       [text |-> "{\"choices\": [{}]}",
        value |-> Obj1("choices", JArr(<< JObj(<<>>) >>))],
       [text |-> "{\"choices\": [\"hello\"]}",
        value |-> Obj1("choices", JArr(<< JStr(Hello) >>))],
       [text |-> "{\"choices\": []}",
        value |-> Obj1("choices", JArr(<<>>))],
       [text |-> "{\"choices\": null}",
        value |-> Obj1("choices", JNull)],
       [text |-> "{\"error\": \"hello\"}",
        value |-> Obj1("error", JStr(Hello))],
       [text |-> "{}", value |-> JObj(<<>>)],
       [text |-> "[]", value |-> JArr(<<>>)],
       [text |-> "5", value |-> JNum(<<"5">>)],
       [text |-> "null", value |-> JNull] >>

RawTexts(call) == { <<"o","o","p","s">>, call.authorization }

ErrorStatuses == {401, 404, 500, 504, 201}

NetworkErrors(call) ==
    { [type |-> t, msg |-> <<>>] :
          t \in {"ReadTimeout", "ConnectTimeout", "WriteTimeout", "PoolTimeout"} }
    \cup { [type |-> "ReadError", msg |-> m] :
               m \in { <<"Connection reset by peer">>, call.authorization } }

\* The upstream answers with a status and a body that is no JSON document.
RawResponses(call) ==
    { [kind |-> "response", status_code |-> s, body |-> RawBody(b)] :
          s \in ErrorStatuses \cup {200}, b \in RawTexts(call) }

\* The upstream answers 200 with the i-th JSON document.
JsonResponse(i) ==
    [kind |-> "response", status_code |-> 200, body |-> JsonBody(JsonDocuments[i])]

\* client.post raises.
Failures(call) == { [kind |-> "raised", exc |-> e] : e \in NetworkErrors(call) }

NoOutcome == [kind |-> "none"]

----------------------------------------------------------------------------
\* The handler after client.post returned or raised.

\* content = ""; if 'choices' in response_data and len(...) > 0: content = ...
ExtractContent(response_data) ==
    LET has == PyContainsChoices(response_data) IN
    IF ~has.ok THEN has
    ELSE IF ~has.v THEN Ok(JStr(<<>>))
    ELSE LET choices == PyItemChoices(response_data) IN
    IF ~choices.ok THEN choices
    ELSE LET n == PyLen(choices.v) IN
    IF ~n.ok THEN n
    ELSE IF ~(n.v > 0) THEN Ok(JStr(<<>>))
    ELSE LET first == PyItem0(choices.v) IN
    IF ~first.ok THEN first
    ELSE LET message == PyGet(first.v, "message", JObj(<<>>)) IN
    IF ~message.ok THEN message
    ELSE PyGet(message.v, "content", JStr(<<>>))

FinalResponse(content, unit_id, content_text, response_data) ==
    [content |-> content, unit |-> unit_id,
     raw_input_length |-> Len(content_text),
     raw_response |-> response_data]

\* The status checks on the upstream response.
StatusChecks(response) ==
    IF response.status_code = 401
    THEN HTTPException(401, <<"Unauthorized">>)
    ELSE IF response.status_code = 404
    THEN HTTPException(404, <<"Agent not found">>)
    ELSE IF response.status_code # 200
    THEN HTTPException(response.status_code,
                       <<"API error: ">> \o response.body.text)
    ELSE Ok(TRUE)

\* From the status checks to "return final_response".
AfterResponse(unit_id, content_text, response) ==
    LET checked == StatusChecks(response) IN
    IF ~checked.ok THEN checked
    ELSE LET response_data == response.body.json IN
    IF ~response_data.ok THEN response_data
    ELSE LET content == ExtractContent(response_data.v) IN
    IF ~content.ok THEN content
    ELSE LET content_length == PyLen(content.v) IN
    IF ~content_length.ok THEN content_length
    ELSE Ok(FinalResponse(content.v, unit_id, content_text, response_data.v))

TIMEOUT_DETAIL ==
    "The REI API took too long to respond (over 50 minutes). Try a simpler query or check back later."

\* As ExceptClauses without "except HTTPException: raise".
ExceptClauses_NoReraise(result) ==
    IF result.ok THEN result
    ELSE IF result.exc.type = "HTTPException"
    THEN HTTPException(500, result.exc.detail)
    ELSE IF result.exc.type = "ReadTimeout"
    THEN HTTPException(504, <<TIMEOUT_DETAIL>>)
    ELSE HTTPException(500, result.exc.msg)

\* As ExceptClauses with every httpx timeout answered like a read timeout.
ExceptClauses_AnyTimeout(result) ==
    IF result.ok THEN result
    ELSE IF result.exc.type = "HTTPException" THEN result
    ELSE IF result.exc.type \in
                {"ReadTimeout", "ConnectTimeout", "WriteTimeout", "PoolTimeout"}
    THEN HTTPException(504, <<TIMEOUT_DETAIL>>)
    ELSE HTTPException(500, result.exc.msg)

\* As ExceptClauses with an unexpected failure answered as an empty success.
ExceptClauses_Swallow(result) ==
    IF result.ok THEN result
    ELSE IF result.exc.type = "HTTPException" THEN result
    ELSE IF result.exc.type = "ReadTimeout"
    THEN HTTPException(504, <<TIMEOUT_DETAIL>>)
    ELSE Ok(FinalResponse(JStr(<<>>), <<>>, <<>>, JNull))

\* except HTTPException: raise / except httpx.ReadTimeout / except Exception
ExceptClauses(result) ==
    IF result.ok THEN result
    ELSE IF result.exc.type = "HTTPException" THEN result
    ELSE IF result.exc.type = "ReadTimeout"
    THEN HTTPException(504, <<TIMEOUT_DETAIL>>)
    ELSE HTTPException(500, result.exc.msg)

\* What the framework sends for a handler that returned or raised HTTPException.
HttpResponse(result) ==
    IF result.ok
    THEN [type |-> "ok", status_code |-> 200, body |-> result.v]
    ELSE [type |-> "error", status_code |-> result.exc.status_code,
          detail |-> result.exc.detail]

\* try-body outcome once the awaited call is over.
Resume(frame, outcome) ==
    IF outcome.kind = "raised"
    THEN [ok |-> FALSE, exc |-> outcome.exc]
    ELSE AfterResponse(frame.unit_id, frame.content_text, outcome)

\* The record of one finished chat exchange: the request, the outbound calls
\* made for it, how the upstream call ended and the response sent.
ChatExchange(unit_id, text, calls, outcome, response) ==
    [kind |-> "chat", unit_id |-> unit_id, text |-> text, calls |-> calls,
     outcome |-> outcome, response |-> response]

----------------------------------------------------------------------------
\* State machine.

\* As Frame, with the request kept in one module-level variable that the
\* latest arrival overwrites: a suspended handler resumes on another's data.
Frame_Shared(r) ==
    IF \E q \in Requests : q # r /\ req[q].pc = "awaiting"
    THEN req[CHOOSE q \in Requests : q # r /\ req[q].pc = "awaiting"]
    ELSE req[r]

\* The locals of request r's coroutine.
Frame(r) == req[r]

Init ==
    /\ \E environ \in Environments : rei_agents = LoadAgents(environ, <<>>)
    /\ req = [r \in Requests |-> IdleFrame]
    /\ delivered = [kind |-> "none"]

\* chat_with_specific_unit, from the request's arrival to the first await
\* (or to the 404 when the unit is unknown).
chat_with_specific_unit(r) ==
    /\ req[r].pc = "idle"
    /\ \E unit_id \in UnitIds, text \in Texts :
          IF ~UnitKnown(rei_agents, unit_id)
          THEN /\ delivered' =
                     ChatExchange(unit_id, text, <<>>, NoOutcome,
                         HttpResponse(ExceptClauses(
                             UnitNotFound(rei_agents, unit_id))))
               /\ UNCHANGED <<rei_agents, req>>
          ELSE /\ req' = [req EXCEPT ![r] =
                              AwaitingFrame(rei_agents, unit_id, text)]
               /\ UNCHANGED <<rei_agents, delivered>>

\* chat_with_specific_unit, from the end of the awaited call to the response.
Complete(r, outcome) ==
    /\ delivered' =
           ChatExchange(req[r].unit_id, req[r].content_text, req[r].calls,
               outcome,
               HttpResponse(ExceptClauses(Resume(Frame(r), outcome))))
    /\ req' = [req EXCEPT ![r] = IdleFrame]
    /\ UNCHANGED rei_agents

chat_with_specific_unit_resumed(r) ==
    /\ req[r].pc = "awaiting"
    /\ LET call == req[r].calls[Len(req[r].calls)] IN
          \/ \E outcome \in RawResponses(call) : Complete(r, outcome)
          \/ \E i \in DOMAIN JsonDocuments : Complete(r, JsonResponse(i))
          \/ \E outcome \in Failures(call) : Complete(r, outcome)

\* GET /units
list_available_units ==
    /\ delivered' =
           [kind |-> "units",
            response |-> [type |-> "ok", status_code |-> 200,
                          body |-> [units |-> DictKeys(rei_agents),
                                    count |-> Len(rei_agents)]]]
    /\ UNCHANGED <<rei_agents, req>>

\* As health_check, reporting an empty registry as a degraded service.
health_check_Degraded ==
    /\ delivered' =
           [kind |-> "health",
            response |-> [type |-> "ok", status_code |-> 200,
                          body |-> [status |-> IF Len(rei_agents) = 0
                                               THEN "degraded" ELSE "healthy",
                                    units_configured |-> Len(rei_agents)]]]
    /\ UNCHANGED <<rei_agents, req>>

\* GET /health
health_check ==
    /\ delivered' =
           [kind |-> "health",
            response |-> [type |-> "ok", status_code |-> 200,
                          body |-> [status |-> "healthy",
                                    units_configured |-> Len(rei_agents)]]]
    /\ UNCHANGED <<rei_agents, req>>

Next ==
    \/ \E r \in Requests : chat_with_specific_unit(r)
    \/ \E r \in Requests : chat_with_specific_unit_resumed(r)
    \/ list_available_units
    \/ health_check

Spec == Init /\ [][Next]_vars

----------------------------------------------------------------------------
\* Properties.

Keys == { rei_agents[i].k : i \in 1..Len(rei_agents) }
Credentials == { rei_agents[i].v : i \in 1..Len(rei_agents) }

\* The credential registered for a configured unit.
CredentialOf(unit_id) ==
    (CHOOSE p \in { rei_agents[i] : i \in 1..Len(rei_agents) } : p.k = unit_id).v

ChatDone == delivered.kind = "chat"

\* Identifiers looked for in a listing of units.
Identifiers ==
    UnitIds \cup Keys \cup Credentials \cup { <<"B">>, <<"c">>, <<"C">>, <<>> }

\* The identifiers a detail lists between its brackets, each in quotes.
Listed(detail) ==
    { id \in Identifiers :
          Contains(AfterToken(detail, "["), <<"'">> \o id \o <<"'">>) }

\* C1: a chat request for a unit_id that is not a key of the registry (exact
\* match, so "A" is absent when only "a" is configured) ends with 404, a
\* detail that names the requested unit_id and lists exactly the configured
\* identifiers, and no outbound call; a request that is in flight at the
\* upstream is never one for an absent unit.
C1_UnknownUnit ==
    /\ (ChatDone /\ delivered.unit_id \notin Keys) =>
          /\ delivered.response.type = "error"
          /\ delivered.response.status_code = 404
          /\ Contains(delivered.response.detail,
                      <<"REI unit '">> \o delivered.unit_id)
          /\ Listed(delivered.response.detail) = Keys
          /\ delivered.calls = <<>>
          /\ delivered.outcome = NoOutcome
    /\ \A r \in Requests : req[r].calls # <<>> => req[r].unit_id \in Keys

C1_Witness ==
    /\ ChatDone
    /\ delivered.unit_id = <<"A">>
    /\ Keys = { <<"a">>, <<"b">> }
    /\ delivered.response.status_code = 404
    /\ delivered.calls = <<>>

\* The call carries exactly what the request and the registry give.
Carries(call, unit_id, text) ==
    /\ call.method = "POST"
    /\ call.url = API_URL
    /\ call.authorization = <<"Bearer ">> \o CredentialOf(unit_id)
    /\ call.json = [messages |-> << [role |-> "user", content |-> text] >>]

\* C2: a chat request for a configured unit makes exactly one outbound POST
\* over its whole lifetime, whatever the upstream outcome; the call carries
\* "Bearer " and the full credential registered for that unit (not the masked
\* value built for the log) and one user message whose content is the
\* caller's text unchanged.
C2_OneCall ==
    /\ \A r \in Requests :
          req[r].pc = "awaiting" =>
              /\ Len(req[r].calls) = 1
              /\ Carries(req[r].calls[1], req[r].unit_id, req[r].content_text)
              /\ req[r].calls[1].authorization # req[r].headers
    /\ (ChatDone /\ delivered.unit_id \in Keys) =>
          /\ Len(delivered.calls) = 1
          /\ Carries(delivered.calls[1], delivered.unit_id, delivered.text)
          /\ delivered.outcome.kind \in {"response", "raised"}

C2_Witness ==
    /\ ChatDone
    /\ delivered.unit_id = <<"b">>
    /\ Len(rei_agents) = 2
    /\ delivered.text # <<>>
    /\ delivered.outcome.kind = "raised"
    /\ Len(delivered.calls) = 1
    /\ delivered.calls[1].authorization = <<"Bearer ">> \o SecretB

\* C3: when the outbound call returns a status, the first matching rule
\* decides: 401 gives 401 "Unauthorized"; 404 gives 404 "Agent not found"
\* (not the unit-not-found detail); any other status but 200 gives that
\* status with a detail carrying the raw upstream body; only 200 leads to a
\* success; the response to an upstream error keeps the upstream's status,
\* so it is a 500 only when the upstream itself answered 500.
C3_StatusRules ==
    (ChatDone /\ delivered.outcome.kind = "response") =>
        LET upstream == delivered.outcome.status_code
            response == delivered.response
        IN /\ upstream = 401 =>
                 /\ response.type = "error"
                 /\ response.status_code = 401
                 /\ response.detail = <<"Unauthorized">>
           /\ upstream = 404 =>
                 /\ response.type = "error"
                 /\ response.status_code = 404
                 /\ response.detail = <<"Agent not found">>
                 /\ Head(response.detail) # "REI unit '"
           /\ upstream \notin {401, 404, 200} =>
                 /\ response.type = "error"
                 /\ response.status_code = upstream
                 /\ response.detail =
                        <<"API error: ">> \o delivered.outcome.body.text
           /\ upstream # 200 =>
                 /\ response.type = "error"
                 /\ response.status_code = upstream
                 /\ response.status_code = 500 => upstream = 500
           /\ response.type = "ok" => upstream = 200

C3_Witness ==
    /\ ChatDone
    /\ delivered.outcome.kind = "response"
    /\ delivered.outcome.status_code = 500
    /\ delivered.response.status_code = 500
    /\ delivered.response.detail = <<"API error: ", "o", "o", "p", "s">>

\* The path choices[0].message.content of a parsed body, where it exists.
HasFirstChoice(d) ==
    /\ d.t = "obj"
    /\ DictHas(d.v, "choices")
    /\ DictGet(d.v, "choices").t = "arr"
    /\ Len(DictGet(d.v, "choices").v) > 0

FirstChoice(d) == DictGet(d.v, "choices").v[1]

HasMessage(d) ==
    /\ HasFirstChoice(d)
    /\ FirstChoice(d).t = "obj"
    /\ DictHas(FirstChoice(d).v, "message")

MessageOf(d) == DictGet(FirstChoice(d).v, "message")

HasContentPath(d) ==
    /\ HasMessage(d)
    /\ MessageOf(d).t = "obj"
    /\ DictHas(MessageOf(d).v, "content")

ContentAtPath(d) == DictGet(MessageOf(d).v, "content")

\* The upstream answered 200 with a body that is a JSON document.
Upstream200Json ==
    /\ ChatDone
    /\ delivered.outcome.kind = "response"
    /\ delivered.outcome.status_code = 200
    /\ delivered.outcome.body.json.ok

\* C4: for every upstream 200 whose body is valid JSON the gateway answers
\* 200 with a ChatResponse whose content is choices[0].message.content when
\* the body has that path and the empty string for every body that lacks it
\* (message null or not an object, first choice not an object, body not an
\* object included); a missing shape never gives an error response.
C4_LenientContent ==
    Upstream200Json =>
        LET d == delivered.outcome.body.json.v IN
        /\ delivered.response.type = "ok"
        /\ delivered.response.status_code = 200
        /\ delivered.response.body.content =
               IF HasContentPath(d) THEN ContentAtPath(d) ELSE JStr(<<>>)

\* The outbound call ended in a read timeout.
ReadTimedOut ==
    /\ ChatDone
    /\ delivered.outcome.kind = "raised"
    /\ delivered.outcome.exc.type = "ReadTimeout"

\* C5 as stated: a chat response has status 504 if and only if the outbound
\* call ended in a read timeout (never because the upstream returned a
\* status).
C5_Only504OnReadTimeout ==
    ChatDone => (delivered.response.status_code = 504 <=> ReadTimedOut)

\* C5 as amended: a read timeout gives 504 with the took-too-long message; a
\* 504 is sent if and only if the call ended in a read timeout or the
\* upstream itself returned status 504 (passed through with its body), never
\* for another kind of failure; and the took-too-long message is sent if and
\* only if the call ended in a read timeout.
C5_Timeout504 ==
    ChatDone =>
        /\ ReadTimedOut =>
              /\ delivered.response.type = "error"
              /\ delivered.response.status_code = 504
              /\ delivered.response.detail = <<TIMEOUT_DETAIL>>
        /\ delivered.response.status_code = 504 <=>
              \/ ReadTimedOut
              \/ /\ delivered.outcome.kind = "response"
                 /\ delivered.outcome.status_code = 504
        /\ (delivered.outcome.kind = "response"
                /\ delivered.outcome.status_code = 504) =>
              delivered.response.detail =
                  <<"API error: ">> \o delivered.outcome.body.text
        /\ (delivered.response.type = "error"
                /\ delivered.response.detail = <<TIMEOUT_DETAIL>>) =>
              ReadTimedOut

C5_Witness ==
    /\ ReadTimedOut
    /\ delivered.response.status_code = 504
    /\ delivered.response.detail = <<TIMEOUT_DETAIL>>

\* C6: no error detail the gateway returns contains a credential of the
\* registry, whatever text the upstream body or the failure description
\* holds.
C6_NoCredentialInDetail ==
    (ChatDone /\ delivered.response.type = "error") =>
        \A secret \in Credentials :
            ~Contains(delivered.response.detail, secret)

\* C7: GET /units answers with exactly the registry's unit identifiers, each
\* once, in lowercase, none of them a credential, and their number as count;
\* with an empty registry units = [] and count = 0; the request can be
\* served in every state.
C7_Units ==
    /\ ENABLED list_available_units
    /\ delivered.kind = "units" =>
          LET body == delivered.response.body IN
          /\ delivered.response.status_code = 200
          /\ { body.units[i] : i \in 1..Len(body.units) } = Keys
          /\ \A i, j \in 1..Len(body.units) :
                 body.units[i] = body.units[j] => i = j
          /\ \A i \in 1..Len(body.units) :
                 /\ body.units[i] = Lower(body.units[i])
                 /\ body.units[i] \notin Credentials
          /\ body.count = Cardinality(Keys)
          /\ Keys = {} => (body.units = <<>> /\ body.count = 0)

C7_Witness ==
    /\ delivered.kind = "units"
    /\ delivered.response.body.units = << <<"a">>, <<"b">> >>
    /\ delivered.response.body.count = 2
    /\ \E r \in Requests : req[r].pc = "awaiting"

\* C8: GET /health can be served in every state, chat requests in flight or
\* not, and answers status "healthy" with units_configured equal to the
\* number of registry keys, the empty registry included.
C8_Health ==
    /\ ENABLED health_check
    /\ delivered.kind = "health" =>
          /\ delivered.response.status_code = 200
          /\ delivered.response.body.status = "healthy"
          /\ delivered.response.body.units_configured = Cardinality(Keys)

C8_Witness ==
    /\ delivered.kind = "health"
    /\ Keys = {}
    /\ delivered.response.body.status = "healthy"
    /\ delivered.response.body.units_configured = 0

\* C9: a finished chat exchange has one response, and no failure is
\* swallowed: a 200 is sent only when the unit resolved, the single outbound
\* call returned 200 and its body parsed as JSON; a failure that is neither
\* a mapped upstream status nor a read timeout (a 200 body that is no JSON,
\* a network error other than a read timeout, an exception while the
\* response is built) gives 500 with the failure description as detail.
C9_NoSwallowedFailure ==
    ChatDone =>
        LET response == delivered.response
            outcome == delivered.outcome
        IN /\ response.type \in {"ok", "error"}
           /\ response.type = "ok" <=> response.status_code = 200
           /\ response.type = "ok" =>
                 /\ delivered.unit_id \in Keys
                 /\ Len(delivered.calls) = 1
                 /\ outcome.kind = "response"
                 /\ outcome.status_code = 200
                 /\ outcome.body.json.ok
                 /\ response.body.unit = delivered.unit_id
                 /\ response.body.raw_input_length = Len(delivered.text)
                 /\ response.body.raw_response = outcome.body.json.v
           /\ (outcome.kind = "raised" /\ outcome.exc.type # "ReadTimeout") =>
                 /\ response.type = "error"
                 /\ response.status_code = 500
                 /\ response.detail = outcome.exc.msg
           /\ (outcome.kind = "response" /\ outcome.status_code = 200
                   /\ ~outcome.body.json.ok) =>
                 /\ response.type = "error"
                 /\ response.status_code = 500
                 /\ response.detail = outcome.body.json.exc.msg
           /\ (outcome.kind = "response" /\ outcome.status_code = 200
                   /\ response.type = "error") =>
                 response.status_code = 500

C9_Witness ==
    /\ ChatDone
    /\ delivered.outcome.kind = "response"
    /\ delivered.outcome.status_code = 200
    /\ ~delivered.outcome.body.json.ok
    /\ delivered.response.status_code = 500
    /\ delivered.response.detail = NotJson.exc.msg

\* The upstream call ended the same way: the same status and raw body, or
\* the same exception.
SameOutcome(a, b) ==
    /\ a.kind = b.kind
    /\ a.kind = "response" =>
          (a.status_code = b.status_code /\ a.body.text = b.body.text)
    /\ a.kind = "raised" => a.exc = b.exc

\* One step that ends request r, seen from the claim's side.
Ends(r) == req[r].pc = "awaiting" /\ req'[r].pc = "idle"

\* One step that starts request r's outbound call.
Starts(r) == req[r].pc = "idle" /\ req'[r].pc = "awaiting"

\* C10: no handler modifies the registry; a step of one request leaves the
\* other requests' state alone; the exchange a request ends with carries its
\* own unit_id, text and outbound call; two consecutive exchanges with the
\* same unit_id, text and upstream outcome end with the same response,
\* whatever else is in flight; and a request waiting on the upstream blocks
\* neither its own completion nor the arrival of another request.
C10_Independent ==
    /\ [][/\ rei_agents' = rei_agents
          /\ \A r \in Requests :
                (Ends(r) \/ Starts(r)) =>
                    \A q \in Requests \ {r} : req'[q] = req[q]
          /\ \A r \in Requests :
                Starts(r) =>
                    /\ req'[r].calls[1].authorization =
                           <<"Bearer ">> \o CredentialOf(req'[r].unit_id)
                    /\ delivered' = delivered
          /\ \A r \in Requests :
                Ends(r) =>
                    /\ delivered'.kind = "chat"
                    /\ delivered'.unit_id = req[r].unit_id
                    /\ delivered'.text = req[r].content_text
                    /\ delivered'.calls = req[r].calls
                    /\ delivered'.response.type = "ok" =>
                          /\ delivered'.response.body.unit = req[r].unit_id
                          /\ delivered'.response.body.raw_input_length =
                                 Len(req[r].content_text)
          /\ (/\ delivered.kind = "chat"
              /\ delivered'.kind = "chat"
              /\ delivered'.unit_id = delivered.unit_id
              /\ delivered'.text = delivered.text
              /\ SameOutcome(delivered'.outcome, delivered.outcome)) =>
                delivered'.response = delivered.response
         ]_vars
    /\ [](\A r \in Requests :
              /\ req[r].pc = "awaiting" => ENABLED chat_with_specific_unit_resumed(r)
              /\ req[r].pc = "idle" => ENABLED chat_with_specific_unit(r))

C10_Witness ==
    /\ \E r \in Requests : req[r].pc = "awaiting" /\ req[r].unit_id = <<"b">>
    /\ ChatDone
    /\ delivered.unit_id = <<"a">>
    /\ delivered.text # <<>>
    /\ delivered.response.type = "ok"
    /\ delivered.response.body.unit = <<"a">>
    /\ delivered.calls[1].authorization = <<"Bearer ">> \o SecretA

====
